---------------------------- MODULE Spec2Model ----------------------------
(***************************************************************************)
(* A state-machine model of stable_whisper/alignment.py: the three control *)
(* algorithms align, refine and locate.  Each algorithm has its own        *)
(* specification (SpecAlign, SpecRefine, SpecLocate) over one record       *)
(* variable holding the locals of one call of the function.  The sequence  *)
(* model, the tokenizer and the timestamp extraction are external: their   *)
(* answers are nondeterministic choices from small sets.                   *)
(*                                                                         *)
(* Times are integers in milliseconds (the code rounds its timestamps to   *)
(* three decimals), sample positions are integers, frames are integers.    *)
(***************************************************************************)
EXTENDS Integers, Sequences, FiniteSets, TLC

VARIABLES align, refine, locate

vars == <<align, refine, locate>>

(***************************************************************************)
(* Program constants (whisper.audio, imported at alignment.py:12-14).      *)
(***************************************************************************)
SAMPLE_RATE == 16000
N_SAMPLES == 480000
FRAMES_PER_SECOND == 50
N_FRAMES == 3000
CHUNK_LENGTH == 30

(***************************************************************************)
(* Bounds of the model.                                                    *)
(***************************************************************************)
\* align: number of input words, tokens per word, model text context
MaxWords == 3
MaxTok == 2
NTextCtx == 9
\* align: the extraction adapter answers with times on a grid of
\* 0..MaxHalfWindows half windows; the audio is up to one half window longer
MaxHalfWindows == 2

(***************************************************************************)
(* Helpers.                                                                *)
(***************************************************************************)
None == "None"

Max(a, b) == IF a >= b THEN a ELSE b
Min(a, b) == IF a <= b THEN a ELSE b

\* Python's round() and numpy's .round(): n/d rounded to the nearest
\* integer, a tie going to the even neighbour (d > 0).
Round(n, d) ==
    LET q == n \div d
        r == n % d
    IN  IF 2 * r < d THEN q
        ELSE IF 2 * r > d THEN q + 1
        ELSE IF q % 2 = 0 THEN q ELSE q + 1

Front(s) == SubSeq(s, 1, Len(s) - 1)
Last(s) == s[Len(s)]

RECURSIVE SumLen(_)
\* sum(len(wt) for wt in word_tokens)
SumLen(wts) == IF wts = <<>> THEN 0 ELSE Len(Head(wts)) + SumLen(Tail(wts))

(***************************************************************************)
(* align                                                                   *)
(***************************************************************************)
\* milliseconds of half a window, and the sample count of half a window
HalfWindowMs == (N_SAMPLES * 1000) \div (2 * SAMPLE_RATE)
HalfWindowSamples == N_SAMPLES \div 2

AlignTimes == {k * HalfWindowMs : k \in 0..MaxHalfWindows}
AlignTotals == {k * HalfWindowSamples : k \in 0..(MaxHalfWindows + 1)}

\* the probabilities (in percent) the extraction adapter may answer
AlignProbs == {0, 100}

\* what the extraction adapter may answer for one word
AlignTimings ==
    {t \in [start : AlignTimes, end : AlignTimes] : t.start <= t.end}

\* what the extraction adapter may answer for a batch of n words: the words
\* come back in time order (an ordered list of words)
BatchTimings(n) ==
    {timing \in [1..n -> AlignTimings] :
        \A i \in 1..(n - 1) : timing[i].end <= timing[i + 1].start}

\* the tokens of input word i (n of them)
TokensOf(i, n) == [j \in 1..n |-> i]

AlignIdle == [pc |-> "idle"]
RefineIdle == [pc |-> "idle"]

max_token_step == NTextCtx - 6

\* the state in which align is called; text_language is the language of a
\* text given as a result, None for a text given as a string
AlignCall(n, nt, ts, riw, total, language, text_language) ==
    [pc |-> "start",
     in_words |-> [i \in 1..n |-> i],
     words |-> [i \in 1..n |-> i],
     word_tokens |-> [i \in 1..n |-> TokensOf(i, nt[i])],
     token_step |-> ts,
     language |-> language,
     text_language |-> text_language,
     remove_instant_words |-> riw,
     seek_sample |-> 0,
     total_samples |-> total,
     total_tokens |-> 0,
     finished_tokens |-> 0,
     curr_words |-> <<>>,
     curr_word_tokens |-> <<>>,
     result |-> <<>>,
     instant |-> <<>>,
     requested |-> FALSE,
     warned |-> FALSE,
     ret |-> None]

AlignInit ==
    \E n \in 0..MaxWords :
    \E nt \in [1..n -> 1..MaxTok] :
    \E ts \in 0..(max_token_step + 1) :
    \E riw \in BOOLEAN :
    \E total \in AlignTotals :
        align = AlignCall(n, nt, ts, riw, total, "en", None)

\* a mutant of DerivedLanguage: a language is made up when none is given
DerivedLanguage_Default(language, text_language) == "en"

\* instant holds, for the window just processed, which of the words the
\* adapter returned had no duration (line 261); it is empty otherwise

\* lines 171-173: the language given, else the language of the result given
\* as text
DerivedLanguage(language, text_language) ==
    IF language = None THEN text_language ELSE language

\* align, lines 162-186 and 201-205: token_step and the language are checked
\* and the cursor set
align_start ==
    /\ align.pc = "start"
    /\ IF align.token_step >= 1 /\ align.token_step > max_token_step
       THEN align' = [align EXCEPT !.pc = "ValueError"]
       ELSE IF DerivedLanguage(align.language, align.text_language) = None
       THEN align' = [align EXCEPT
                !.pc = "TypeError",
                !.token_step = IF @ < 1 THEN max_token_step ELSE @]
       ELSE align' = [align EXCEPT
                !.pc = "loop",
                !.token_step = IF @ < 1 THEN max_token_step ELSE @,
                !.total_tokens = SumLen(align.word_tokens)]
    /\ UNCHANGED <<refine, locate>>

\* a mutant of BatchFull: the budget test is off by one
BatchFull_OffByOne(curr_tk_count, tk_count, token_step, w) ==
    curr_tk_count + tk_count >= token_step /\ w # <<>>

\* line 213: the next word does not fit and the batch is not empty
BatchFull(curr_tk_count, tk_count, token_step, w) ==
    curr_tk_count + tk_count > token_step /\ w # <<>>

RECURSIVE CurrWordsLoop(_, _, _, _, _, _, _)
\* the for loop of get_curr_words: k iterations are left
CurrWordsLoop(k, words, word_tokens, w, wt, curr_tk_count, token_step) ==
    IF k = 0
    THEN [w |-> w, wt |-> wt, words |-> words, word_tokens |-> word_tokens]
    ELSE LET tk_count == Len(word_tokens[1])
         IN  IF BatchFull(curr_tk_count, tk_count, token_step, w)
             THEN [w |-> w, wt |-> wt, words |-> words,
                   word_tokens |-> word_tokens]
             ELSE CurrWordsLoop(k - 1, Tail(words), Tail(word_tokens),
                                Append(w, words[1]),
                                Append(wt, word_tokens[1]),
                                curr_tk_count + tk_count, token_step)

GetCurrWords(words, word_tokens, token_step) ==
    CurrWordsLoop(Len(words), words, word_tokens, <<>>, <<>>, 0, token_step)

\* the loop test of line 231 and the call of get_curr_words of line 232
get_curr_words ==
    /\ align.pc = "loop"
    /\ align.words # <<>>
    /\ align.seek_sample < align.total_samples
    /\ LET g == GetCurrWords(align.words, align.word_tokens, align.token_step)
       IN  align' = [align EXCEPT !.pc = "extract",
                                  !.instant = <<>>,
                                  !.curr_words = g.w,
                                  !.curr_word_tokens = g.wt,
                                  !.words = g.words,
                                  !.word_tokens = g.word_tokens]
    /\ UNCHANGED <<refine, locate>>

\* add_word_timestamps_stable with split_callback = identity: the words of
\* the request come back, each with the timing the adapter found
SegmentWords(curr_words, curr_word_tokens, timing, prob) ==
    [i \in 1..Len(curr_words) |->
        [word |-> curr_words[i], start |-> timing[i].start,
         end |-> timing[i].end, probability |-> prob,
         tokens |-> curr_word_tokens[i]]]

\* a mutant of PushFront: the word goes to the back of the queue
PushFront_Back(x, queue) == Append(queue, x)

\* lines 262-263: list.insert(0, x)
PushFront(x, queue) == <<x>> \o queue

RECURSIVE RequeueLoop_InstantOnly(_, _, _, _)
\* a mutant of RequeueLoop: only the words of no duration go back
RequeueLoop_InstantOnly(segwords, words, word_tokens, break_next) ==
    IF segwords = <<>> \/ Last(segwords).end - Last(segwords).start # 0
    THEN [segwords |-> segwords, words |-> words, word_tokens |-> word_tokens]
    ELSE RequeueLoop_InstantOnly(Front(segwords),
                                 PushFront(Last(segwords).word, words),
                                 PushFront(Last(segwords).tokens, word_tokens),
                                 FALSE)

RECURSIVE RequeueLoop(_, _, _, _)
\* the while loop of lines 258-270
RequeueLoop(segwords, words, word_tokens, break_next) ==
    IF segwords = <<>>
    THEN [segwords |-> segwords, words |-> words, word_tokens |-> word_tokens]
    ELSE LET word == Last(segwords)
         IN  IF break_next \/ word.end - word.start = 0
             THEN LET words2 == PushFront(word.word, words)
                      wts2 == PushFront(word.tokens, word_tokens)
                  IN  IF break_next
                      THEN [segwords |-> Front(segwords), words |-> words2,
                            word_tokens |-> wts2]
                      ELSE RequeueLoop(Front(segwords), words2, wts2, FALSE)
             ELSE IF words # <<>>
             THEN RequeueLoop(segwords, words, word_tokens, TRUE)
             ELSE [segwords |-> segwords, words |-> words,
                   word_tokens |-> word_tokens]

\* a mutant of SegmentSamples: the window is not cut at the end of the audio
SegmentSamples_WholeWindow(seek_sample, total_samples) == N_SAMPLES

\* lines 234-236: the samples of the window that starts at the cursor
SegmentSamples(seek_sample, total_samples) ==
    Max(0, Min(seek_sample + N_SAMPLES, total_samples) - seek_sample)

\* a mutant of NextSeekSample: the cursor always moves on by the window
NextSeekSample_Window(segwords, seek_sample, total_samples) ==
    seek_sample + SegmentSamples(seek_sample, total_samples)

\* lines 273-276: the cursor after a window
NextSeekSample(segwords, seek_sample, total_samples) ==
    IF segwords # <<>>
    THEN Round(Last(segwords).end * SAMPLE_RATE, 1000)
    ELSE seek_sample + SegmentSamples(seek_sample, total_samples)

\* one window: lines 234-280, the body of the loop after get_curr_words
align_window ==
    /\ align.pc = "extract"
    /\ \E timing \in BatchTimings(Len(align.curr_words)) :
       \E prob \in AlignProbs :
         LET seg == SegmentWords(align.curr_words, align.curr_word_tokens,
                                 timing, prob)
             r == RequeueLoop(seg, align.words, align.word_tokens, FALSE)
         IN  align' = [align EXCEPT
                 !.pc = "loop",
                 !.requested = TRUE,
                 !.instant = [i \in 1..Len(seg) |->
                                seg[i].end - seg[i].start = 0],
                 !.words = r.words,
                 !.word_tokens = r.word_tokens,
                 !.finished_tokens =
                     @ + SumLen([i \in 1..Len(r.segwords) |->
                                    r.segwords[i].tokens]),
                 !.seek_sample =
                     NextSeekSample(r.segwords, align.seek_sample,
                                    align.total_samples),
                 !.result = @ \o r.segwords]
    /\ UNCHANGED <<refine, locate>>

\* line 294
AlignTotalDuration(total_samples) == Round(total_samples * 1000, SAMPLE_RATE)

\* a mutant of PendingWords: the adapter's full probability is given
PendingWords_FullProb(words, word_tokens, total_samples) ==
    [i \in 1..Len(words) |->
        [word |-> words[i],
         start |-> Round(total_samples * 1000, SAMPLE_RATE),
         end |-> Round(total_samples * 1000, SAMPLE_RATE),
         probability |-> 100,
         tokens |-> word_tokens[i]]]

\* lines 293-300: the words left in the queue, as they are appended
PendingWords(words, word_tokens, total_samples) ==
    [i \in 1..Len(words) |->
        [word |-> words[i],
         start |-> AlignTotalDuration(total_samples),
         end |-> AlignTotalDuration(total_samples),
         probability |-> 0,
         tokens |-> word_tokens[i]]]

\* a mutant of FinalResult: remove_instant_words is not looked at
FinalResult_Always(result, words, word_tokens, riw, total_samples) ==
    result \o PendingWords(words, word_tokens, total_samples)

\* lines 290-300: the result after the loop
FinalResult(result, words, word_tokens, riw, total_samples) ==
    IF words # <<>> /\ ~riw
    THEN result \o PendingWords(words, word_tokens, total_samples)
    ELSE result

\* lines 290-311: the loop is over
align_finish ==
    /\ align.pc = "loop"
    /\ ~(align.words # <<>> /\ align.seek_sample < align.total_samples)
    /\ LET res == FinalResult(align.result, align.words, align.word_tokens,
                              align.remove_instant_words, align.total_samples)
       IN  align' = [align EXCEPT
                 !.pc = "done",
                 !.instant = <<>>,
                 !.warned = (align.result = <<>>),
                 !.result = res,
                 !.finished_tokens = align.total_tokens,
                 !.ret = IF res = <<>> THEN None ELSE "WhisperResult"]
    /\ UNCHANGED <<refine, locate>>

LocateIdle == [pc |-> "idle"]

InitAlign == AlignInit /\ refine = RefineIdle /\ locate = LocateIdle

NextAlign ==
    \/ align_start
    \/ get_curr_words
    \/ align_window
    \/ align_finish

SpecAlign == InitAlign /\ [][NextAlign]_vars

(***************************************************************************)
(* refine                                                                  *)
(*                                                                         *)
(* Word times are milliseconds.  The clamps of curr_segments are kept in   *)
(* units of 1/Scale ms, rel_dur_change being a multiple of 1/Scale, so     *)
(* that w.duration * rel_dur_change is exact.  Probabilities are percent.  *)
(***************************************************************************)
Scale == 2
\* lines 461 and 469: a word's clamp reaches at most 14.5 s over the word
ClampMs == 14500
\* line 480: a batch spans at most 30 s
MaxBatchMs == 30000

\* bounds: words of the result, tokens per word, and the grid of word
\* times: the audio of RefineTotalMs milliseconds cut in MaxRefTicks parts
MaxRefWords == 2
MaxRefTok == 2
MaxRefTicks == 2
RefineTotalMs == 260

RefineTimes == {(k * RefineTotalMs) \div MaxRefTicks : k \in 0..MaxRefTicks}

\* the arguments of refine the model runs over
RefineSteps == {<<"s">>, <<"e">>, <<"s", "e">>, <<"e", "s">>}
\* verbose is True, False or None
VerboseVals == {"True", "False"}
\* an optional number is <<>> (None) or <<x>>; rel_dur_change in 1/Scale,
\* abs_dur_change in ms
DurChanges == {[rel |-> <<>>, abs |-> <<>>], [rel |-> <<1>>, abs |-> <<>>],
               [rel |-> <<>>, abs |-> <<100>>]}
WordLevels == {TRUE}
PrecisionsMs == {20}
\* word.probability of the words of the result, and what the model answers
LowProb == 0
HighProb == 100
\* what get_prob measures for a word: its probability and the rank position
\* of its tokens
ProbeOutcomes == {[prob |-> 100, tk_pos |-> 1], [prob |-> 0, tk_pos |-> 1],
                  [prob |-> 100, tk_pos |-> 0]}

\* model.dims.n_text_ctx of the models refine is run with
RefineTextCtxs == {7, 8}

\* line 439
max_inference_tokens(n_text_ctx) == n_text_ctx - 6

Duration(w) == w.end - w.start

\* line 441
FramePrecision(precision_ms) ==
    Max(Round(precision_ms * FRAMES_PER_SECOND, 1000), 2)

\* lines 445-448, for a time x in units of 1/Scale ms
ts_to_frames(x) == Round(x * FRAMES_PER_SECOND, 1000 * Scale)

\* lines 452-456
SegEdgeMask(words) ==
    [i \in 1..Len(words) |->
        IF i = 1 \/ words[i - 1].segment_id # words[i].segment_id THEN 1
        ELSE IF i = Len(words) \/ words[i + 1].segment_id # words[i].segment_id
        THEN 2
        ELSE 0]

\* a mutant of StartTime: the previous word's end is not a bound
StartTime_NoPrev(words, i, rel, abs) ==
    LET w == words[i]
    IN  Max(Max(IF abs = <<>> THEN 0 ELSE Scale * (w.start - abs[1]),
                IF rel = <<>> THEN 0 ELSE Scale * w.start - Duration(w) * rel[1]),
            IF i = 1 THEN 0 ELSE Scale * Max(w.end - ClampMs, 0))

\* lines 457-464: the lower clamp of the start of word i (1/Scale ms)
StartTime(words, i, rel, abs) ==
    LET w == words[i]
    IN  Max(Max(IF abs = <<>> THEN 0 ELSE Scale * (w.start - abs[1]),
                IF rel = <<>> THEN 0 ELSE Scale * w.start - Duration(w) * rel[1]),
            IF i = 1 THEN 0
            ELSE Scale * Max(Max(words[i - 1].end, w.end - ClampMs), 0))

\* lines 465-472: the upper clamp of the end of word i (1/Scale ms)
EndTime(words, i, rel, abs, total) ==
    LET w == words[i]
    IN  Min(Min(IF abs = <<>> THEN Scale * total ELSE Scale * (w.end + abs[1]),
                IF rel = <<>> THEN Scale * total
                ELSE Scale * w.end + Duration(w) * rel[1]),
            IF i = Len(words) THEN Scale * total
            ELSE Scale * Min(Min(words[i + 1].start, w.start + ClampMs), total))

RECURSIVE PartitionLoop(_, _, _, _, _, _, _, _)
\* lines 478-494: the loop of curr_segments at word i; prev_i counts from 0,
\* count is len(curr_words), out the batches yielded so far
PartitionLoop(i, start_times, end_times, start, prev_i, count, out, cap) ==
    LET n == Len(start_times)
        split == \/ end_times[i] - start > Scale * MaxBatchMs
                 \/ count + 1 > cap
        out2 == IF split /\ count > 0
                THEN Append(out, [first |-> prev_i + 1, count |-> count])
                ELSE out
        count2 == IF split THEN 1 ELSE count + 1
        start2 == IF split THEN start_times[i] ELSE start
        prev2 == IF split THEN i - 1 ELSE prev_i
    IN  IF i = n
        THEN Append(out2, [first |-> prev2 + 1, count |-> count2])
        ELSE PartitionLoop(i + 1, start_times, end_times, start2, prev2,
                           count2, out2, cap)

\* lines 450-494: the batches curr_segments yields
CurrSegments(start_times, end_times, cap) ==
    PartitionLoop(1, start_times, end_times, start_times[1], 0, 0, <<>>, cap)

\* the words of the result: word i lasts from b[2i-1] to b[2i]; word low, if
\* any, has the low probability; every word has ntok tokens
RefineWords(n, b, low, ntok, seg) ==
    [i \in 1..n |-> [start |-> b[2 * i - 1], end |-> b[2 * i],
                     probability |-> IF i = low THEN LowProb ELSE HighProb,
                     tokens |-> TokensOf(i, ntok),
                     segment_id |-> seg[i]]]

\* the segment of each word, from the places where a new segment begins
SegmentIds(n, brk) ==
    [i \in 1..n |-> Cardinality({j \in 2..i : brk[j]})]

\* the state in which refine is called: result is the object of the caller,
\* whose words are caller; input keeps what the words were at the call
RefineCall(ws, total, n_text_ctx, steps, verbose, dur, word_level, precision, inplace) ==
    [pc |-> "start",
     n_text_ctx |-> n_text_ctx,
     steps |-> steps,
     verbose |-> verbose,
     rel_dur_change |-> dur.rel,
     abs_dur_change |-> dur.abs,
     word_level |-> word_level,
     precision |-> precision,
     inplace |-> inplace,
     frame_precision |-> 0,
     prob_threshold |-> 50,
     abs_prob_decrease |-> 5,
     rel_prob_decrease |-> 3,
     rel_rel_prob_decrease |-> <<>>,
     total_duration |-> total,
     input |-> ws,
     caller |-> ws,
     is_caller |-> TRUE,
     words |-> ws,
     inferred |-> FALSE,
     step_i |-> 0,
     pass_words |-> <<>>,
     start_times |-> <<>>,
     end_times |-> <<>>,
     edge_mask |-> <<>>,
     batches |-> <<>>,
     batch_i |-> 0,
     time_offset |-> 0,
     min_starts |-> <<>>, max_starts |-> <<>>,
     mid_starts |-> <<>>,
     min_ends |-> <<>>, max_ends |-> <<>>,
     mid_ends |-> <<>>,
     prob_indices |-> <<>>,
     is_finish |-> <<>>,
     changes |-> <<>>,
     orig_probs |-> <<>>,
     baseline_probs |-> <<>>,
     baseline_mel |-> <<>>,
     orig_tk_poss |-> <<>>,
     prev_probs |-> <<>>,
     half0 |-> <<>>,
     probes |-> ProbeOutcomes,
     iters |-> 0]

RefineInit ==
    \E n \in 0..MaxRefWords :
    \E b \in [1..(2 * n) -> RefineTimes] :
    \E total \in {RefineTotalMs} :
    \E low \in 0..n :
    \E ntok \in {MaxRefTok} :
    \E n_text_ctx \in RefineTextCtxs :
    \E brk \in [2..n -> {FALSE}] :
    \E steps \in RefineSteps :
    \E verbose \in VerboseVals :
    \E dur \in DurChanges :
    \E word_level \in WordLevels :
    \E precision \in PrecisionsMs :
        /\ \A i \in 1..(2 * n - 1) : b[i] <= b[i + 1]
        /\ n > 0 => b[2 * n] <= total
        /\ refine = RefineCall(RefineWords(n, b, low, ntok, SegmentIds(n, brk)),
                               total, n_text_ctx, steps, verbose, dur,
                               word_level, precision, TRUE)

\* a mutant of CheckedSteps: every letter is let through
CheckedSteps_Any(steps) == "ok"

\* lines 420-427: the steps refine runs, "ValueError" for a letter that is
\* neither s nor e
CheckedSteps(steps) ==
    IF \E i \in 1..Len(steps) : steps[i] \notin {"s", "e"}
    THEN "ValueError" ELSE "ok"

\* a mutant of WorksOnCaller: the copy is not made
WorksOnCaller_Always(inplace) == TRUE

\* lines 429-430: result stays the object of the caller unless a deep copy
\* is made
WorksOnCaller(inplace) == inplace

\* lines 420-443: the arguments are checked
refine_start ==
    /\ refine.pc = "start"
    /\ LET steps == IF refine.steps = <<>> THEN <<"s", "e">>
                    ELSE refine.steps
       IN  IF CheckedSteps(steps) # "ok"
           THEN refine' = [refine EXCEPT !.pc = CheckedSteps(steps)]
           ELSE IF refine.words = <<>>
           THEN refine' = [refine EXCEPT !.pc = "NotImplementedError",
                                         !.steps = steps]
           ELSE refine' = [refine EXCEPT
                    !.pc = "pass",
                    !.steps = steps,
                    !.is_caller = WorksOnCaller(refine.inplace),
                    !.step_i = 1,
                    !.frame_precision = FramePrecision(refine.precision)]
    /\ UNCHANGED <<align, locate>>

\* lines 694-696 and 450-472: a pass begins; curr_segments computes the
\* clamps of all words from the timestamps as they are now
refine_pass ==
    /\ refine.pc = "pass"
    /\ refine.step_i <= Len(refine.steps)
    /\ LET ws == refine.words
           st == [i \in 1..Len(ws) |->
                    StartTime(ws, i, refine.rel_dur_change,
                              refine.abs_dur_change)]
           et == [i \in 1..Len(ws) |->
                    EndTime(ws, i, refine.rel_dur_change,
                            refine.abs_dur_change, refine.total_duration)]
       IN  refine' = [refine EXCEPT
                !.pc = "batch",
                !.pass_words = ws,
                !.start_times = st,
                !.end_times = et,
                !.edge_mask = SegEdgeMask(ws),
                !.batches = CurrSegments(st, et,
                               max_inference_tokens(refine.n_text_ctx)),
                !.batch_i = 1]
    /\ UNCHANGED <<align, locate>>

\* the words of the batch in hand: places first..first+count-1 of the result
BatchPlace(k) == refine.batches[refine.batch_i].first + k - 1
BatchCount == refine.batches[refine.batch_i].count

\* a mutant of PreFinished: a word of no duration is refined like the others
PreFinished_NoDuration(w, edge, prob_threshold, word_level, is_end_ts) ==
    \/ w.probability < prob_threshold
    \/ ~word_level /\ edge # (IF is_end_ts THEN 2 ELSE 1)

\* lines 594-598: the words that are finished before the first probe
PreFinished(w, edge, prob_threshold, word_level, is_end_ts) ==
    \/ w.probability < prob_threshold
    \/ Duration(w) = 0
    \/ ~word_level /\ edge # (IF is_end_ts THEN 2 ELSE 1)

\* lines 599-601: one row index per token, the row of word idx is idx % 2
RECURSIVE ProbIndices(_, _)
ProbIndices(ws, idx) ==
    IF idx > Len(ws) THEN <<>>
    ELSE [j \in 1..Len(ws[idx].tokens) |-> (idx - 1) % 2]
         \o ProbIndices(ws, idx + 1)

\* baseline_mel holds, for each word of the batch, the frames that were
\* zeroed in mel_segment when get_prob measured the baseline (line 609);
\* baseline_probs holds what it measured.
\* get_prob, lines 518-566: one probability and one rank position per word.
\* The answer for a finished word is never read: it is fixed to 0.  probes
\* holds what the model may measure in this call.
ProbeAnswers(is_finish) ==
    {a \in [1..Len(is_finish) -> refine.probes \cup {[prob |-> 0, tk_pos |-> 0]}] :
        \A k \in 1..Len(is_finish) :
            IF is_finish[k] THEN a[k] = [prob |-> 0, tk_pos |-> 0]
            ELSE a[k] \in refine.probes}

IsEndTs == refine.steps[refine.step_i] = "e"

\* a mutant of InitialMute: nothing is zeroed before the baseline
InitialMute_Nothing(idx, n, is_end_ts, edges, mids) ==
    [row |-> (idx - 1) % 2, from |-> 0, to |-> 0]

\* lines 599-608: the frames from..to-1 of a row of mel_segment that are
\* zeroed for word idx (counted from 1) of n before the baseline is
\* measured; edges is max_starts in a pass over the ends and min_ends in a
\* pass over the starts, mids is mid_ends or mid_starts
InitialMute(idx, n, is_end_ts, edges, mids) ==
    IF is_end_ts
    THEN [row |-> (idx - 1) % 2, from |-> edges[idx],
          to |-> IF idx = n THEN N_FRAMES ELSE mids[idx + 1]]
    ELSE [row |-> (idx - 1) % 2,
          from |-> IF idx = 1 THEN 0 ELSE mids[idx - 1], to |-> edges[idx]]

\* lines 498-620: a batch begins; the search intervals are set up, the words
\* finished from the start are marked, the baseline is measured
refine_batch ==
    /\ refine.pc = "batch"
    /\ refine.batch_i <= Len(refine.batches)
    /\ LET n == BatchCount
           ws == [k \in 1..n |-> refine.words[BatchPlace(k)]]
           time_offset == refine.start_times[BatchPlace(1)]
           max_starts == [k \in 1..n |->
                            ts_to_frames(Scale * ws[k].end - time_offset)]
           min_ends == [k \in 1..n |->
                            ts_to_frames(Scale * ws[k].start - time_offset)]
           min_starts == [k \in 1..n |->
                            ts_to_frames(refine.start_times[BatchPlace(k)]
                                         - time_offset)]
           max_ends == [k \in 1..n |->
                            ts_to_frames(refine.end_times[BatchPlace(k)]
                                         - time_offset)]
           mid_starts == [k \in 1..n |->
                            min_starts[k]
                            + Round(max_starts[k] - min_starts[k], 2)]
           mid_ends == [k \in 1..n |->
                            min_ends[k] + Round(max_ends[k] - min_ends[k], 2)]
           is_finish == [k \in 1..n |->
                            PreFinished(ws[k], refine.edge_mask[BatchPlace(k)],
                                        refine.prob_threshold,
                                        refine.word_level, IsEndTs)]
       IN  \E a \in ProbeAnswers(is_finish) :
             refine' = [refine EXCEPT
                !.pc = "loop",
                !.inferred = TRUE,
                !.time_offset = time_offset,
                !.min_starts = min_starts, !.max_starts = max_starts,
                !.mid_starts = mid_starts,
                !.min_ends = min_ends, !.max_ends = max_ends,
                !.mid_ends = mid_ends,
                !.prob_indices = ProbIndices(ws, 1),
                !.is_finish = is_finish,
                !.changes = [k \in 1..n |-> <<0, 0, -1>>],
                !.orig_probs = [k \in 1..n |-> a[k].prob],
                !.baseline_probs = [k \in 1..n |-> a[k].prob],
                !.baseline_mel =
                    [k \in 1..n |->
                        IF is_finish[k] THEN <<>>
                        ELSE <<InitialMute(k, n, IsEndTs,
                                  IF IsEndTs THEN max_starts ELSE min_ends,
                                  IF IsEndTs THEN mid_ends ELSE mid_starts)>>],
                !.orig_tk_poss = [k \in 1..n |-> a[k].tk_pos],
                !.prev_probs = [k \in 1..n |-> a[k].prob],
                !.half0 = [k \in 1..n |->
                             IF IsEndTs
                             THEN Round(max_ends[k] - min_ends[k], 2)
                             ELSE Round(max_starts[k] - min_starts[k], 2)],
                !.iters = 0]
    /\ UNCHANGED <<align, locate>>

\* numpy's a / b > t for a, b in percent and t in percent of 1: a division
\* by zero gives inf, -inf or nan, and only inf is above t
RatioAbove(a, b, t) ==
    IF b = 0 THEN a > 0 ELSE a * 100 > t * b

\* lines 637-644
BestTksChanged(orig_tk_pos, tk_pos) == orig_tk_pos > tk_pos

FailedRequirements(orig, prev, prob, orig_tk_pos, tk_pos) ==
    \/ orig - prob > refine.abs_prob_decrease
    \/ RatioAbove(orig - prob, orig, refine.rel_prob_decrease)
    \/ /\ refine.rel_rel_prob_decrease # <<>>
       /\ RatioAbove(prev - prob, prev, refine.rel_rel_prob_decrease[1])
    \/ prob < refine.prob_threshold
    \/ BestTksChanged(orig_tk_pos, tk_pos)

\* line 571, in milliseconds, for time_offset in units of 1/Scale ms
NewTs(time_offset, frame) ==
    Round(time_offset * FRAMES_PER_SECOND + 1000 * frame * Scale,
          Scale * FRAMES_PER_SECOND)

\* a mutant of UpdateTs: the recorded midpoint is written wherever it lies
UpdateTs_NoGuard(w, is_end_ts, change, time_offset, verbose) ==
    IF change[3] = -1 THEN w
    ELSE LET new_ts == NewTs(time_offset, change[3])
         IN  IF verbose # "True" THEN w
             ELSE IF is_end_ts THEN [w EXCEPT !.end = new_ts]
             ELSE [w EXCEPT !.start = new_ts]

\* update_ts, lines 568-589, called for a word that has just finished
UpdateTs(w, is_end_ts, change, time_offset, verbose) ==
    IF change[3] = -1 THEN w
    ELSE LET new_ts == NewTs(time_offset, change[3])
         IN  IF /\ change[1] # 0 /\ change[2] = 0
                /\ IF is_end_ts THEN new_ts <= w.end ELSE new_ts >= w.start
             THEN w
             ELSE IF verbose # "True" THEN w
             ELSE IF is_end_ts THEN [w EXCEPT !.end = new_ts]
             ELSE [w EXCEPT !.start = new_ts]

\* a mutant of NewMidChange: the mean of the bounds is taken for the half
\* of the width
NewMidChange_Mean(curr_min, curr_max) == Round(curr_max + curr_min, 2)

\* a mutant of NewMidChange: the width of the interval is not halved
NewMidChange_Whole(curr_min, curr_max) == curr_max - curr_min

\* line 659
NewMidChange(curr_min, curr_max) == Round(curr_max - curr_min, 2)

\* lines 627-683: the body of the for loop for word k of the batch, given
\* the probability and the rank position measured for it.  row (line 636)
\* is the row of mel_segment that lines 669-677 restore or zero when the
\* word goes on to a new midpoint.
IterWord(k, prob, tk_pos) ==
    LET is_end_ts == IsEndTs
        curr_min0 == IF is_end_ts THEN refine.min_ends[k]
                     ELSE refine.min_starts[k]
        curr_max0 == IF is_end_ts THEN refine.max_ends[k]
                     ELSE refine.max_starts[k]
        curr_mid == IF is_end_ts THEN refine.mid_ends[k]
                    ELSE refine.mid_starts[k]
        best_tks_changed == BestTksChanged(refine.orig_tk_poss[k], tk_pos)
        failed == FailedRequirements(refine.orig_probs[k],
                                     refine.prev_probs[k], prob,
                                     refine.orig_tk_poss[k], tk_pos)
        change1 == IF failed THEN [refine.changes[k] EXCEPT ![1] = 1]
                   ELSE [refine.changes[k] EXCEPT ![2] = 1]
        curr_min == IF failed = is_end_ts THEN curr_mid ELSE curr_min0
        curr_max == IF failed = is_end_ts THEN curr_max0 ELSE curr_mid
        new_mid_change == NewMidChange(curr_min, curr_max)
        new_mid == curr_min + new_mid_change
        w == refine.words[BatchPlace(k)]
        row == refine.prob_indices[k]
    IN  IF refine.is_finish[k]
        THEN [fin |-> TRUE, min |-> curr_min0, max |-> curr_max0,
              mid |-> curr_mid, change |-> refine.changes[k],
              orig_prob |-> refine.orig_probs[k], word |-> w, row |-> row]
        ELSE IF new_mid_change < refine.frame_precision
        THEN [fin |-> TRUE, min |-> curr_min0, max |-> curr_max0,
              mid |-> curr_mid, change |-> change1,
              orig_prob |-> refine.orig_probs[k], row |-> row,
              word |-> UpdateTs(w, is_end_ts, change1, refine.time_offset,
                                refine.verbose)]
        ELSE [fin |-> FALSE, min |-> curr_min, max |-> curr_max,
              mid |-> new_mid,
              change |-> IF best_tks_changed THEN change1
                         ELSE [change1 EXCEPT ![3] = new_mid],
              orig_prob |-> prob, word |-> w, row |-> row]

\* lines 621-683: one iteration of the while loop: a probe of all words of
\* the batch, then the for loop over them.  prev_probs (line 626) is read
\* only when rel_rel_prob_decrease is given, and is kept only then.
refine_iter ==
    /\ refine.pc = "loop"
    /\ \E k \in 1..Len(refine.is_finish) : ~refine.is_finish[k]
    /\ \E a \in ProbeAnswers(refine.is_finish) :
         LET n == Len(refine.is_finish)
             probs == [k \in 1..n |-> a[k].prob]
             r == [k \in 1..n |-> IterWord(k, a[k].prob, a[k].tk_pos)]
             first == refine.batches[refine.batch_i].first
             is_end_ts == IsEndTs
         IN  refine' = [refine EXCEPT
                !.is_finish = [k \in 1..n |-> r[k].fin],
                !.changes = [k \in 1..n |-> r[k].change],
                !.orig_probs = [k \in 1..n |-> r[k].orig_prob],
                !.prev_probs = IF refine.rel_rel_prob_decrease = <<>>
                               THEN @ ELSE probs,
                !.min_starts = IF is_end_ts THEN @
                               ELSE [k \in 1..n |-> r[k].min],
                !.max_starts = IF is_end_ts THEN @
                               ELSE [k \in 1..n |-> r[k].max],
                !.mid_starts = IF is_end_ts THEN @
                               ELSE [k \in 1..n |-> r[k].mid],
                !.min_ends = IF is_end_ts THEN [k \in 1..n |-> r[k].min]
                             ELSE @,
                !.max_ends = IF is_end_ts THEN [k \in 1..n |-> r[k].max]
                             ELSE @,
                !.mid_ends = IF is_end_ts THEN [k \in 1..n |-> r[k].mid]
                             ELSE @,
                !.words = [i \in 1..Len(refine.words) |->
                             IF i >= first /\ i < first + n
                             THEN r[i - first + 1].word
                             ELSE refine.words[i]],
                !.caller = IF ~refine.is_caller THEN @
                           ELSE [i \in 1..Len(refine.words) |->
                                   IF i >= first /\ i < first + n
                                   THEN r[i - first + 1].word
                                   ELSE refine.words[i]],
                !.iters = @ + 1]
    /\ UNCHANGED <<align, locate>>

\* lines 498 and 621: all words of the batch are finished, the next batch
\* follows; the locals of the batch are dead and are reset
refine_batch_end ==
    /\ refine.pc = "loop"
    /\ \A k \in 1..Len(refine.is_finish) : refine.is_finish[k]
    /\ refine' = [refine EXCEPT
            !.pc = "batch", !.batch_i = @ + 1,
            !.time_offset = 0,
            !.min_starts = <<>>, !.max_starts = <<>>, !.mid_starts = <<>>,
            !.min_ends = <<>>, !.max_ends = <<>>, !.mid_ends = <<>>,
            !.prob_indices = <<>>, !.is_finish = <<>>, !.changes = <<>>,
            !.orig_probs = <<>>, !.baseline_probs = <<>>,
            !.baseline_mel = <<>>,
            !.orig_tk_poss = <<>>, !.prev_probs = <<>>,
            !.half0 = <<>>, !.iters = 0]
    /\ UNCHANGED <<align, locate>>

\* lines 694-697: no batch is left, the next step follows
refine_pass_end ==
    /\ refine.pc = "batch"
    /\ refine.batch_i > Len(refine.batches)
    /\ refine' = [refine EXCEPT
            !.pc = "pass", !.step_i = @ + 1,
            !.pass_words = <<>>, !.start_times = <<>>, !.end_times = <<>>,
            !.edge_mask = <<>>, !.batches = <<>>, !.batch_i = 0]
    /\ UNCHANGED <<align, locate>>

\* lines 698-702: all steps are done
refine_finish ==
    /\ refine.pc = "pass"
    /\ refine.step_i > Len(refine.steps)
    /\ refine' = [refine EXCEPT !.pc = "done"]
    /\ UNCHANGED <<align, locate>>

InitRefine == RefineInit /\ align = AlignIdle /\ locate = LocateIdle

NextRefine ==
    \/ refine_start
    \/ refine_pass
    \/ refine_batch
    \/ refine_iter
    \/ refine_batch_end
    \/ refine_pass_end
    \/ refine_finish

SpecRefine == InitRefine /\ [][NextRefine]_vars

(***************************************************************************)
(* locate (lines 705-1065).  The variable locate holds the locals of one   *)
(* call.  Times are in milliseconds.  A token is a string, the tokenizer   *)
(* decodes a token list to a list of characters.  The coarse stage answers *)
(* with a target_end from TargetEnds; each call of the decoder answers     *)
(* with the best token, the best token that is not the terminator, and     *)
(* whether the expected token reaches probability_threshold.               *)
(***************************************************************************)
\* bounds: the largest count, the audio in half chunks, the windows one call
\* goes through
MaxCount == 2
MaxHalfChunks == 3
MaxWindows == 3

\* line 831
CHUNK_SAMPLES == CHUNK_LENGTH * SAMPLE_RATE

\* tokenizer.eot and the other tokens of the vocabulary
Eot == "eot"
Vocab == {"a", "b", "ab"}
\* task.initial_tokens, line 844
initial_tokens == <<"sot", "notimestamps">>

\* tokenizer.decode of one token, as a list of characters
TokenText(t) == IF t = "ab" THEN <<"a", "b">> ELSE <<t>>

RECURSIVE Decode(_)
\* tokenizer.decode, lines 845 and 951
Decode(tokens) ==
    IF tokens = <<>> THEN <<>>
    ELSE TokenText(tokens[1]) \o Decode(Tail(tokens))

\* str.endswith, line 954
EndsWith(s, t) ==
    Len(s) >= Len(t) /\ SubSeq(s, Len(s) - Len(t) + 1, Len(s)) = t

\* the arguments of locate the model runs over
LocateModes == {0, 1, 2}
LocateTexts == {<<"a">>, <<"a", "b">>}
LocateTotals == {k * (CHUNK_SAMPLES \div 2) : k \in 0..MaxHalfChunks}
EotsVals == {0, 1}
MaxTokenPerSegs == {2}
\* duration_window in ms, lines 832-833
DurationWindows == {<<3000, 3000>>}
\* what the coarse stage answers, line 897, in ms
TargetEnds == {0, 10000}
\* the end of the last word add_word_timestamps_stable gives, line 1044
LocateWordEnds == {0, 5000}

\* round(t * SAMPLE_RATE) for t in ms
MsToSamples(t) == Round(t * SAMPLE_RATE, 1000)

\* the decode locals of a window when no window is decoded
NoDecode ==
    [target_end |-> 0, predictions |-> <<>>, target_token_idx |-> 0,
     found_target |-> FALSE, curr_eots |-> 0, tokens_to_decode |-> <<>>,
     replace_found_tokens |-> <<>>, infer_tokens |-> <<>>,
     temp_tokens |-> <<>>, kv_cache |-> <<>>]

\* lines 834-836: the assertion on duration_window (in ms here), which
\* compares a count of samples with a sum of seconds
EntryAssertion(duration_window) ==
    CHUNK_SAMPLES * 1000 > duration_window[1] + duration_window[2]

\* lines 829-866: the state in which the search loop of locate begins
LocateCall(mode, count, total, exact_token, text_tokens, eots, max_token_per_seg, duration_window) ==
    [pc |-> "loop",
     mode |-> mode,
     count |-> count,
     exact_token |-> exact_token,
     text_tokens |-> text_tokens,
     text |-> Decode(text_tokens),
     eots |-> eots,
     max_token_per_seg |-> max_token_per_seg,
     duration_window |-> duration_window,
     prev_target_end |-> <<>>,
     found |-> 0,
     seek_sample |-> 0,
     total_samples |-> total,
     matches |-> <<>>,
     windows |-> 0,
     d |-> NoDecode]

LocateInit ==
    \E mode \in LocateModes :
    \E count \in 0..MaxCount :
    \E total \in LocateTotals :
    \E exact_token \in BOOLEAN :
    \E text_tokens \in LocateTexts :
    \E eots \in EotsVals :
    \E max_token_per_seg \in MaxTokenPerSegs :
    \E duration_window \in DurationWindows :
        /\ EntryAssertion(duration_window)
        /\ locate = LocateCall(mode, count, total, exact_token, text_tokens,
                               eots, max_token_per_seg, duration_window)

\* a mutant of LoopCondition: the count is not looked at
LoopCondition_NoCount(seek_sample, total_samples, count, found) ==
    seek_sample < total_samples

\* line 1058
LoopCondition(seek_sample, total_samples, count, found) ==
    seek_sample < total_samples /\ (count = 0 \/ found < count)

\* line 870, in ms
Seek == Round(locate.seek_sample * 1000, SAMPLE_RATE)

\* line 871: the length of audio_segment
AudioSegmentLen ==
    Min(CHUNK_SAMPLES, locate.total_samples - locate.seek_sample)

\* lines 868-914 and 1059-1060: a window in mode 2
locate_coarse ==
    /\ locate.pc = "loop"
    /\ LoopCondition(locate.seek_sample, locate.total_samples, locate.count,
                     locate.found)
    /\ locate.windows < MaxWindows
    /\ locate.mode = 2
    /\ \E target_end \in TargetEnds :
        LET found == locate.found + 1
            last == \/ locate.seek_sample + CHUNK_SAMPLES
                         >= locate.total_samples
                    \/ locate.count # 0 /\ found >= locate.count
                    \/ locate.prev_target_end = <<target_end>>
        IN  locate' = [locate EXCEPT
                !.found = found,
                !.seek_sample = IF last THEN locate.total_samples
                                ELSE @ + MsToSamples(target_end),
                !.prev_target_end = <<target_end>>,
                !.matches = Append(@, [kind |-> "estimate",
                                       target_end |-> target_end + Seek]),
                !.windows = @ + 1]
    /\ UNCHANGED <<align, refine>>

\* lines 868-897 and 916-933: a window in mode 0 or 1 up to the decode loop
locate_confirm ==
    /\ locate.pc = "loop"
    /\ LoopCondition(locate.seek_sample, locate.total_samples, locate.count,
                     locate.found)
    /\ locate.windows < MaxWindows
    /\ locate.mode # 2
    /\ \E target_end \in TargetEnds :
        locate' = [locate EXCEPT
            !.pc = "decode",
            !.windows = @ + 1,
            !.d = [NoDecode EXCEPT
                     !.target_end = target_end,
                     !.infer_tokens = initial_tokens,
                     !.temp_tokens = <<initial_tokens>>]]
    /\ UNCHANGED <<align, refine>>

\* lines 983-987: the token context of a rewind; torch.cat joins its two
\* arguments of one row each along the rows, which needs rows of one length
Replay(infer_tokens, replace_found_tokens) ==
    LET n == Len(replace_found_tokens)
        kept == SubSeq(infer_tokens, 1, Len(infer_tokens) - n)
    IN  [error |-> Len(kept) # n, rows |-> <<kept, replace_found_tokens>>]

\* a mutant of StopAtEot: a confirmed match does not end the decoding
StopAtEot_CounterOnly(curr_eots, eots, found_target) == curr_eots >= eots

\* line 992: a terminator ends the decoding
StopAtEot(curr_eots, eots, found_target) ==
    curr_eots >= eots \/ found_target

\* lines 935-1006: one iteration of the decode loop, for what the decoder
\* answers
DecodeStep(d, best_token0, best_non_eot_token0, high) ==
    LET kv == d.kv_cache \o d.temp_tokens[1]
        target == locate.text_tokens[d.target_token_idx + 1]
        \* lines 950-955
        decoded == IF d.found_target \/ locate.exact_token
                   THEN d.tokens_to_decode
                   ELSE Append(d.tokens_to_decode, best_non_eot_token0)
        is_match == /\ ~d.found_target
                    /\ ~locate.exact_token
                    /\ EndsWith(Decode(decoded), locate.text)
        accepted == /\ ~d.found_target
                    /\ \/ high
                       \/ best_non_eot_token0 = target
                       \/ is_match
        \* line 941: best_non_eot_token is best_token itself unless
        \* best_token is the terminator; line 970 writes into best_token
        same == best_token0 # Eot
        by_token == accepted /\ ~is_match
        best_non_eot_token == IF by_token /\ same THEN target
                              ELSE best_non_eot_token0
        tokens_to_decode == IF is_match THEN <<>>
                            ELSE IF by_token /\ same /\ ~locate.exact_token
                            THEN Append(d.tokens_to_decode, target)
                            ELSE decoded
        buffered == by_token /\ (\/ Len(d.replace_found_tokens) > 0
                                 \/ best_non_eot_token # target)
        target_token_idx == IF by_token THEN d.target_token_idx + 1
                            ELSE IF accepted \/ d.found_target
                            THEN d.target_token_idx
                            ELSE 0
        found_target == \/ d.found_target
                        \/ is_match
                        \/ by_token /\ target_token_idx
                                         = Len(locate.text_tokens)
        rewind == ~accepted /\ ~d.found_target
                  /\ Len(d.replace_found_tokens) > 0
        replay == Replay(d.infer_tokens, d.replace_found_tokens)
        stop_eot == ~accepted /\ best_token0 = Eot
                    /\ StopAtEot(d.curr_eots, locate.eots, d.found_target)
        best_token == IF is_match THEN best_non_eot_token0
                      ELSE IF by_token THEN target
                      ELSE IF best_token0 = Eot /\ ~stop_eot
                      THEN best_non_eot_token0
                      ELSE best_token0
        curr_eots == IF accepted THEN 0
                     ELSE IF best_token0 # Eot THEN 0
                     ELSE IF stop_eot THEN d.curr_eots
                     ELSE d.curr_eots + 1
        predictions == Append(d.predictions, best_token)
        not_end == ~stop_eot /\ Len(predictions) <= locate.max_token_per_seg
    IN  [error |-> rewind /\ replay.error,
         not_end |-> not_end,
         counted |-> accepted /\ found_target,
         d |-> [d EXCEPT
                  !.predictions = predictions,
                  !.target_token_idx = target_token_idx,
                  !.found_target = found_target,
                  !.curr_eots = curr_eots,
                  !.tokens_to_decode = tokens_to_decode,
                  !.replace_found_tokens =
                      IF buffered THEN Append(@, best_non_eot_token)
                      ELSE IF rewind THEN <<>>
                      ELSE @,
                  !.infer_tokens = IF not_end THEN Append(@, best_token)
                                   ELSE @,
                  !.temp_tokens = IF not_end THEN <<<<best_token>>>>
                                  ELSE IF rewind THEN replay.rows
                                  ELSE @,
                  !.kv_cache = IF rewind THEN <<>> ELSE kv]]

\* lines 934-1006: the decode loop runs once more
locate_decode ==
    /\ locate.pc = "decode"
    /\ \E best_token \in Vocab \cup {Eot} :
       \E best_non_eot_token \in Vocab :
       \E high \in BOOLEAN :
        /\ best_token # Eot => best_non_eot_token = best_token
        /\ locate.d.found_target => ~high
        /\ LET r == DecodeStep(locate.d, best_token, best_non_eot_token, high)
           IN  locate' = [locate EXCEPT
                   !.pc = IF r.error THEN "RuntimeError"
                          ELSE IF r.not_end THEN "decode"
                          ELSE "decoded",
                   !.found = IF r.counted THEN @ + 1 ELSE @,
                   !.d = IF r.error THEN locate.d ELSE r.d]
    /\ UNCHANGED <<align, refine>>

\* lines 916-917, in ms
CurrEnd(target_end) == target_end + locate.duration_window[2]
CurrStart(target_end) == Max(target_end - locate.duration_window[1], 0)

\* line 837
adjusted_chunk_size == CHUNK_SAMPLES - MsToSamples(locate.duration_window[1])

\* lines 1007-1053 and 1059-1060: the decode loop has ended; the match, if
\* one was confirmed, is added and the cursor moves on
locate_window_end ==
    /\ locate.pc = "decoded"
    /\ \E word_end \in LocateWordEnds :
        /\ (~locate.d.found_target \/ locate.mode = 1) => word_end = 0
        /\ locate' = [locate EXCEPT
                !.pc = "loop",
                !.d = NoDecode,
                !.seek_sample =
                    IF ~locate.d.found_target
                    THEN @ + (IF AudioSegmentLen = CHUNK_SAMPLES
                              THEN adjusted_chunk_size ELSE AudioSegmentLen)
                    ELSE IF locate.mode = 1
                    THEN @ + MsToSamples(CurrEnd(locate.d.target_end))
                    ELSE @ + MsToSamples(word_end),
                !.matches =
                    IF ~locate.d.found_target THEN @
                    ELSE IF locate.mode = 1
                    THEN Append(@, [kind |-> "window",
                                    target_end |-> locate.d.target_end + Seek])
                    ELSE Append(@, [kind |-> "segment",
                                    target_end |-> word_end + Seek])]
    /\ UNCHANGED <<align, refine>>

\* lines 1058 and 1062-1065: the search loop ends, matches is returned
locate_return ==
    /\ locate.pc = "loop"
    /\ ~LoopCondition(locate.seek_sample, locate.total_samples, locate.count,
                      locate.found)
    /\ locate' = [locate EXCEPT !.pc = "done"]
    /\ UNCHANGED <<align, refine>>

InitLocate == LocateInit /\ align = AlignIdle /\ refine = RefineIdle

NextLocate ==
    \/ locate_coarse
    \/ locate_confirm
    \/ locate_decode
    \/ locate_window_end
    \/ locate_return

SpecLocate == InitLocate /\ [][NextLocate]_vars

(***************************************************************************)
(* Claims about align                                                      *)
(***************************************************************************)
\* the .word of every record of a word list
WordsOf(ws) == [i \in 1..Len(ws) |-> ws[i].word]
TokensIn(ws) == [i \in 1..Len(ws) |-> ws[i].tokens]

\* the token count of the first j entries of a queue of token lists
PrefixTokens(wts, j) == SumLen(SubSeq(wts, 1, j))

\* C1: every batch get_curr_words takes is a prefix of the pending queue, at
\* least one word long, and the longest prefix whose token count is at most
\* token_step; its token count is above token_step only when it is a single
\* word that alone is above token_step.
C1_BatchIsLongestPrefix ==
    [][(align.pc = "loop" /\ align'.pc = "extract") =>
        LET k == Len(align'.curr_words)
            budget == align.token_step
        IN  /\ k >= 1
            /\ align.words = align'.curr_words \o align'.words
            /\ align.word_tokens = align'.curr_word_tokens \o align'.word_tokens
            /\ \A j \in 1..Len(align.words) :
                   PrefixTokens(align.word_tokens, j) <= budget => j <= k
            /\ \/ PrefixTokens(align.word_tokens, k) <= budget
               \/ k = 1 /\ Len(align.word_tokens[1]) > budget]_vars

\* C1 witness: a batch of two words was cut before a third, which did not fit
C1_Witness ==
    /\ align.pc = "extract"
    /\ Len(align.curr_words) = 2
    /\ align.words # <<>>
    /\ SumLen(align.curr_word_tokens) <= align.token_step
    /\ SumLen(align.curr_word_tokens) + Len(align.word_tokens[1])
         > align.token_step

\* C2: with an adapter that returns the words it was given, result ++ pending
\* queue is the input word sequence at the end of every loop iteration (and
\* result ++ batch ++ queue while a window is processed); with
\* remove_instant_words = False the returned words are the input words.
C2_NoWordLostOrReordered ==
    /\ align.pc = "loop" =>
         /\ WordsOf(align.result) \o align.words = align.in_words
         /\ Len(align.word_tokens) = Len(align.words)
         /\ \A i \in 1..Len(align.words) :
                \A j \in 1..Len(align.word_tokens[i]) :
                    align.word_tokens[i][j] = align.words[i]
    /\ align.pc = "extract" =>
         WordsOf(align.result) \o align.curr_words \o align.words
            = align.in_words
    /\ (align.pc = "done" /\ ~align.remove_instant_words) =>
         WordsOf(align.result) = align.in_words

\* C2 witness: a batch of three words was requested, one was kept and two
\* went back to the queue
C2_Witness ==
    /\ align.pc = "loop"
    /\ Len(align.in_words) = 3
    /\ align.token_step >= align.total_tokens
    /\ Len(align.result) = 1
    /\ Len(align.words) = 2

\* C8 as claimed: when the loop appended nothing to the result, align warns
\* and returns None, whatever remove_instant_words is.
C8_AsClaimed ==
    [][(align.pc = "loop" /\ align'.pc = "done" /\ align.result = <<>>) =>
        (align'.warned /\ align'.ret = None)]_vars

\* C8 amended: when the loop appended nothing to the result, align warns; it
\* returns None if remove_instant_words is True or no word is pending, and
\* otherwise returns the pending words, none of them resolved.
C8_FailedAlignment ==
    [][(align.pc = "loop" /\ align'.pc = "done" /\ align.result = <<>>) =>
        /\ align'.warned
        /\ (align'.ret = None) <=>
              (align.remove_instant_words \/ align.words = <<>>)
        /\ align'.ret # None =>
              /\ WordsOf(align'.result) = align.words
              /\ \A i \in 1..Len(align'.result) :
                     /\ align'.result[i].probability = 0
                     /\ align'.result[i].start = align'.result[i].end]_vars

\* C8 witness: windows were processed, nothing was kept, None is returned
C8_Witness ==
    /\ align.pc = "done"
    /\ align.warned
    /\ align.ret = None
    /\ align.remove_instant_words
    /\ align.in_words # <<>>
    /\ align.seek_sample > 0

\* C9: the words still pending when the loop ends are dropped if
\* remove_instant_words is True; otherwise each is appended in queue order
\* with start = end = the total audio duration (to the millisecond) and
\* probability 0; the words already in the result stay as they are.
C9_TrailingWords ==
    [][(align.pc = "loop" /\ align'.pc = "done" /\ align.words # <<>>) =>
        IF align.remove_instant_words
        THEN align'.result = align.result
        ELSE LET n == Len(align.result)
             IN  /\ Len(align'.result) = n + Len(align.words)
                 /\ SubSeq(align'.result, 1, n) = align.result
                 /\ \A i \in 1..Len(align.words) :
                      LET w == align'.result[n + i]
                      IN  /\ w.word = align.words[i]
                          /\ w.tokens = align.word_tokens[i]
                          /\ w.probability = 0
                          /\ w.start = w.end
                          /\ 2 * (w.end * SAMPLE_RATE
                                   - align.total_samples * 1000) <= SAMPLE_RATE
                          /\ 2 * (align.total_samples * 1000
                                   - w.end * SAMPLE_RATE) <= SAMPLE_RATE]_vars

\* C9 witness: a resolved word is followed by an appended pending word
C9_Witness ==
    /\ align.pc = "done"
    /\ ~align.remove_instant_words
    /\ Len(align.result) >= 2
    /\ align.result[1].probability = 100
    /\ align.result[1].end > align.result[1].start
    /\ Last(align.result).probability = 0
    /\ Last(align.result).start = Last(align.result).end
    /\ Last(align.result).end * SAMPLE_RATE = align.total_samples * 1000

\* C10 as claimed: with remove_instant_words = True no word handed to the
\* result container has zero duration.
C10_AsClaimed ==
    (align.pc = "done" /\ align.remove_instant_words /\ align.ret # None) =>
        \A i \in 1..Len(align.result) :
            align.result[i].end - align.result[i].start # 0

RECURSIVE TrailingInstant(_)
\* the length of the longest run of words of no duration at the end of the
\* words returned
TrailingInstant(instant) ==
    IF instant = <<>> \/ ~Last(instant) THEN 0
    ELSE 1 + TrailingInstant(Front(instant))

\* the last q words of the batch went back to the front of the queue and
\* the words before them were added to the result
Requeued(q) ==
    LET m == Len(align.curr_words)
    IN  /\ align'.words = SubSeq(align.curr_words, m - q + 1, m) \o align.words
        /\ align'.word_tokens
              = SubSeq(align.curr_word_tokens, m - q + 1, m) \o align.word_tokens
        /\ WordsOf(align'.result)
              = WordsOf(align.result) \o SubSeq(align.curr_words, 1, m - q)
        /\ \A i \in 1..(m - q) :
              LET w == align'.result[Len(align.result) + i]
              IN  (w.end - w.start = 0) = align'.instant[i]

\* C19 as the specification states it: the words pushed back after an
\* extraction are exactly the longest trailing run of returned words of no
\* duration; a returned word with a duration is added to the result.
C19_AsClaimed ==
    [][(align.pc = "extract" /\ align'.pc = "loop") =>
        Requeued(TrailingInstant(align'.instant))]_vars

\* C19 amended: the words pushed back after an extraction are the longest
\* trailing run of returned words of no duration and, when a returned word
\* is left before that run and the queue is not empty (words were pending
\* or the run is not empty), also that one word, which has a duration; the
\* returned words before them are added to the result.
C19_RequeuedWords ==
    [][(align.pc = "extract" /\ align'.pc = "loop") =>
        LET m == Len(align.curr_words)
            z == TrailingInstant(align'.instant)
        IN  /\ Len(align'.instant) = m
            /\ Requeued(IF z < m /\ (align.words # <<>> \/ z > 0)
                        THEN z + 1 ELSE z)]_vars

\* three words were returned, the last one without duration: it went back
\* to the queue together with the second, which has a duration
C19_Witness ==
    /\ align.pc = "loop"
    /\ align.instant = <<FALSE, FALSE, TRUE>>
    /\ Len(align.result) = 1
    /\ align.words = <<2, 3>>

\* C20: after a window the cursor is round(end of the last word kept in
\* the window * SAMPLE_RATE) when a word was kept, and otherwise the cursor
\* before plus the samples of the window; when the last word kept ends at
\* or after the offset of the window the cursor has not decreased; no other
\* step moves the cursor.
C20_CursorAfterWindow ==
    [][IF align.pc = "extract" /\ align'.pc = "loop"
       THEN LET kept == Len(align'.result) - Len(align.result)
                end == Last(align'.result).end
                window == Min(align.seek_sample + N_SAMPLES,
                              align.total_samples) - align.seek_sample
            IN  /\ kept > 0 =>
                     /\ 2 * (align'.seek_sample * 1000 - end * SAMPLE_RATE)
                           <= 1000
                     /\ 2 * (end * SAMPLE_RATE - align'.seek_sample * 1000)
                           <= 1000
                /\ kept = 0 =>
                     /\ align'.seek_sample = align.seek_sample + window
                     /\ align'.seek_sample > align.seek_sample
                /\ (kept > 0 /\ end * SAMPLE_RATE >= align.seek_sample * 1000)
                     => align'.seek_sample >= align.seek_sample
       ELSE align.pc # "idle" => align'.seek_sample = align.seek_sample]_vars

\* a window has kept its first word and pushed the rest back: the cursor
\* is at the end of that word, half a window into the audio, and not at the
\* end of the window
C20_Witness ==
    /\ align.pc = "loop"
    /\ align.instant # <<>>
    /\ Len(align.result) = 1
    /\ align.words # <<>>
    /\ align.result[1].end = HalfWindowMs
    /\ align.seek_sample = HalfWindowSamples
    /\ align.seek_sample < align.total_samples

\* align called with a token_step from below 1 to above the maximum, with
\* and without a language, on a text with or without a language of its own
AlignArgTokenSteps == {-1, 0, 1, max_token_step, max_token_step + 1, max_token_step + 2}
AlignArgLanguages == {None, "en"}

AlignArgsInit ==
    \E n \in 0..MaxWords :
    \E ts \in AlignArgTokenSteps :
    \E language \in AlignArgLanguages :
    \E text_language \in AlignArgLanguages :
        align = AlignCall(n, [i \in 1..n |-> MaxTok], ts, TRUE,
                          HalfWindowSamples, language, text_language)

InitAlignArgs == AlignArgsInit /\ refine = RefineIdle /\ locate = LocateIdle

SpecAlignArgs == InitAlignArgs /\ [][NextAlign]_vars

\* C12: a token_step above n_text_ctx - 6 ends align with ValueError, no
\* language given and none in the text ends it with TypeError, in both cases
\* with no extraction requested; a token_step below 1 is no error and
\* becomes n_text_ctx - 6.
C12_ArgumentsRejected ==
    [][align.pc = "start" =>
        /\ align.token_step > NTextCtx - 6 => align'.pc = "ValueError"
        /\ (align.language = None /\ align.text_language = None) =>
                align'.pc \in {"ValueError", "TypeError"}
        /\ align'.pc \in {"ValueError", "TypeError"} =>
                ~align'.requested /\ align'.result = <<>>
        /\ (align.token_step < 1
             /\ (align.language # None \/ align.text_language # None)) =>
                align'.pc = "loop" /\ align'.token_step = NTextCtx - 6
      ]_vars /\ [](align.pc \in {"ValueError", "TypeError"} => ~align.requested)

\* align has ended with TypeError for a token_step that is in range
C12_Witness ==
    /\ align.pc = "TypeError"
    /\ align.token_step = NTextCtx - 6
    /\ align.in_words # <<>>

\* the words that are still to be aligned: the batch in the adapter's hands
\* and the queue behind it
Pending(a) ==
    IF a.pc = "extract" THEN Len(a.curr_words) + Len(a.words)
    ELSE Len(a.words)

\* C34: the loop of align runs only with words pending and the cursor
\* before the end of the audio; every window either appends at least one
\* word to the result, and then as many words fewer are pending, or it
\* appends none, leaves the pending words as they were and moves the cursor
\* on by the samples of the window, a positive number that does not carry it
\* past the end of the audio; taking the batch from the queue changes
\* neither.  The pair (pending words, samples left) thus decreases in the
\* lexicographic order with every window and the loop ends.
C34_LoopTerminates ==
    [][/\ (align.pc = "loop" /\ align'.pc = "extract") =>
            /\ Pending(align) > 0
            /\ align.seek_sample < align.total_samples
            /\ Len(align'.curr_words) > 0
            /\ Pending(align') = Pending(align)
            /\ align'.seek_sample = align.seek_sample
            /\ align'.result = align.result
       /\ (align.pc = "extract" /\ align'.pc = "loop") =>
            LET kept == Len(align'.result) - Len(align.result)
                window == Min(align.seek_sample + N_SAMPLES,
                              align.total_samples) - align.seek_sample
            IN  /\ kept >= 0
                /\ Pending(align') = Pending(align) - kept
                /\ kept = 0 =>
                     /\ window > 0
                     /\ align'.seek_sample = align.seek_sample + window
                     /\ align'.seek_sample <= align.total_samples
       /\ (align.pc = "loop" /\ align'.pc = "done") =>
            \/ align.words = <<>>
            \/ align.seek_sample >= align.total_samples]_vars

\* the loop has ended with the cursor at the end of more than one window of
\* audio, after windows that kept a word and with words still in the queue
C34_Witness ==
    /\ align.pc = "done"
    /\ align.requested
    /\ align.remove_instant_words
    /\ align.result # <<>>
    /\ align.words # <<>>
    /\ align.total_samples > N_SAMPLES
    /\ align.seek_sample = align.total_samples

(***************************************************************************)
(* Claims about refine                                                     *)
(***************************************************************************)
\* refine called with steps that may hold a wrong letter or be empty, with
\* and without inplace, on words that share the audio in equal parts
RefineArgSteps == {<<>>, <<"s">>, <<"x">>, <<"s", "x", "e">>, <<"e", "s">>}

EqualParts(n, total) ==
    [i \in 1..(2 * n) |-> (((i \div 2) * total) \div n)]

RefineArgsInit ==
    \E n \in 0..MaxRefWords :
    \E steps \in RefineArgSteps :
    \E inplace \in BOOLEAN :
        refine = RefineCall(RefineWords(n, EqualParts(n, RefineTotalMs), 0,
                                        MaxRefTok, [i \in 1..n |-> 0]),
                            RefineTotalMs, 8, steps, "True",
                            [rel |-> <<>>, abs |-> <<>>], TRUE, 20, inplace)

InitRefineArgs == RefineArgsInit /\ align = AlignIdle /\ locate = LocateIdle

SpecRefineArgs == InitRefineArgs /\ [][NextRefine]_vars

\* the times of the words of a result
TimesOf(ws) == [i \in 1..Len(ws) |-> <<ws[i].start, ws[i].end>>]

\* C11: steps with a letter other than s and e end refine with ValueError,
\* valid steps on a result without words end it with NotImplementedError,
\* and in both cases there has been no inference call and the words of the
\* caller are as they were.
C11_ArgumentsRejected ==
    /\ (\E i \in 1..Len(refine.steps) : refine.steps[i] \notin {"s", "e"}) =>
            refine.pc \in {"start", "ValueError"}
    /\ (refine.pc # "idle" /\ refine.input = <<>>) =>
            refine.pc \in {"start", "ValueError", "NotImplementedError"}
    /\ refine.pc \in {"ValueError", "NotImplementedError"} =>
            /\ ~refine.inferred
            /\ refine.caller = refine.input
            /\ refine.words = refine.input

\* refine called in place on words with timestamps has ended with ValueError
C11_Witness ==
    /\ refine.pc = "ValueError"
    /\ refine.inplace
    /\ refine.input # <<>>
    /\ \E i \in 1..Len(refine.steps) : refine.steps[i] = "s"

\* C13: without inplace no start and no end of a word of the caller's
\* result is ever changed; what refine changes is the copy it returns.
C13_CopyLeavesCallerAlone ==
    (refine.pc # "idle" /\ ~refine.inplace) =>
        /\ TimesOf(refine.caller) = TimesOf(refine.input)
        /\ refine.pc # "start" /\ refine.input # <<>>
              /\ refine.pc # "ValueError" => ~refine.is_caller

\* refine without inplace has returned words with other times than the
\* caller's
C13_Witness ==
    /\ refine.pc = "done"
    /\ ~refine.inplace
    /\ TimesOf(refine.words) # TimesOf(refine.input)
    /\ TimesOf(refine.caller) = TimesOf(refine.input)

\* the calls of refine in segment-level mode: up to MaxRefWords words that
\* share the audio in equal parts, in every division into segments
RefineSegmentSteps == {<<"s">>, <<"e">>, <<"s", "e">>}

RefineSegmentsInit ==
    \E n \in 1..MaxRefWords :
    \E brk \in [2..n -> BOOLEAN] :
    \E steps \in RefineSegmentSteps :
        refine = RefineCall(RefineWords(n, EqualParts(n, RefineTotalMs), 0,
                                        MaxRefTok, SegmentIds(n, brk)),
                            RefineTotalMs, 8, steps, "True",
                            [rel |-> <<>>, abs |-> <<>>], FALSE, 20, TRUE)

InitRefineSegments ==
    RefineSegmentsInit /\ align = AlignIdle /\ locate = LocateIdle

SpecRefineSegments == InitRefineSegments /\ [][NextRefine]_vars

\* the calls of refine with the default thresholds in which the model
\* measures probabilities that fall a little from probe to probe
FineProbes ==
    {[prob |-> 100, tk_pos |-> 1], [prob |-> 96, tk_pos |-> 1],
     [prob |-> 92, tk_pos |-> 1], [prob |-> 92, tk_pos |-> 0]}

RefineProbesInit ==
    \E n \in 1..MaxRefWords :
    \E steps \in {<<"s">>, <<"e">>} :
        refine = [RefineCall(RefineWords(n, EqualParts(n, RefineTotalMs), 0,
                                         MaxRefTok, [i \in 1..n |-> 0]),
                             RefineTotalMs, 8, steps, "True",
                             [rel |-> <<>>, abs |-> <<>>], TRUE, 20, TRUE)
                  EXCEPT !.probes = FineProbes, !.rel_prob_decrease = 30]

InitRefineProbes ==
    RefineProbesInit /\ align = AlignIdle /\ locate = LocateIdle

SpecRefineProbes == InitRefineProbes /\ [][NextRefine]_vars

\* the tokens of the words of batch j of the pass in hand
BatchTokens(j) ==
    SumLen([k \in 1..refine.batches[j].count |->
              refine.words[refine.batches[j].first + k - 1].tokens])

\* the span of batch j: from the lower clamp of the start of its first word
\* to the upper clamp of the end of its last word, in 1/Scale ms
BatchSpan(j) ==
    refine.end_times[refine.batches[j].first + refine.batches[j].count - 1]
        - refine.start_times[refine.batches[j].first]

\* C14 as the specification states it: a batch of more than one word has at
\* most n_text_ctx - 6 tokens and spans at most 30 s.
C14_AsClaimed ==
    \A j \in 1..Len(refine.batches) :
        refine.batches[j].count > 1 =>
            /\ BatchTokens(j) <= refine.n_text_ctx - 6
            /\ BatchSpan(j) <= Scale * MaxBatchMs

\* word p of the result is the first word of its segment
FirstOfSegment(ws, p) ==
    p = 1 \/ ws[p - 1].segment_id # ws[p].segment_id

\* word p of the result is the last word of its segment
LastOfSegment(ws, p) ==
    p = Len(ws) \/ ws[p + 1].segment_id # ws[p].segment_id

\* C15 as the specification states it: in segment-level mode the words of a
\* batch that are not finished before the first probe are, in a start pass,
\* exactly the first words of the segments and, in an end pass, exactly the
\* last words of the segments (a single word of a segment is both), as far
\* as their probability reaches the threshold and they have a duration.
C15_AsClaimed ==
    (refine.pc = "loop" /\ refine.iters = 0 /\ ~refine.word_level) =>
        \A k \in 1..Len(refine.is_finish) :
            LET p == BatchPlace(k)
                w == refine.words[p]
            IN  ~refine.is_finish[k] <=>
                    /\ IF IsEndTs THEN LastOfSegment(refine.words, p)
                       ELSE FirstOfSegment(refine.words, p)
                    /\ w.probability >= refine.prob_threshold
                    /\ Duration(w) # 0

\* C18 as the specification states it: a probe of an unfinished word whose
\* baseline probability is zero never counts as accepted, whatever the
\* probe measures.
C18_AsClaimed ==
    [][(/\ refine.pc = "loop"
        /\ refine'.pc = "loop"
        /\ refine'.iters = refine.iters + 1) =>
            \A k \in 1..Len(refine.is_finish) :
                (/\ ~refine.is_finish[k]
                 /\ refine.orig_probs[k] = 0
                 /\ refine.changes[k][2] = 0) =>
                    refine'.changes[k][2] = 0]_vars

\* C21 as the specification states it: the baseline probabilities measured
\* before the loop of a batch stay as they are through all its iterations.
C21_AsClaimed ==
    [][(refine.pc = "loop" /\ refine'.pc = "loop") =>
            refine'.orig_probs = refine.orig_probs]_vars

\* the probe of word k moves the bound on the audible side to the midpoint
\* and leaves the other bound
MidpointAccepted(k, r) ==
    IF IsEndTs
    THEN r.max = refine.mid_ends[k] /\ r.min = refine.min_ends[k]
    ELSE r.min = refine.mid_starts[k] /\ r.max = refine.max_starts[k]

\* the probe of word k moves the opposite bound to the midpoint
MidpointRejected(k, r) ==
    IF IsEndTs
    THEN r.min = refine.mid_ends[k] /\ r.max = refine.max_ends[k]
    ELSE r.max = refine.mid_starts[k] /\ r.min = refine.min_starts[k]

\* C22 as the specification states it: whatever the probe of an unfinished
\* word measures, the midpoint is accepted if and only if, against the
\* baseline measured before the loop, none of the five requirements fails,
\* and is rejected otherwise (seen in the bounds of a word that goes on).
C22_AsClaimed ==
    refine.pc = "loop" =>
        \A k \in 1..Len(refine.is_finish) :
            \A o \in refine.probes :
                LET r == IterWord(k, o.prob, o.tk_pos)
                    fails == FailedRequirements(refine.baseline_probs[k],
                                                refine.prev_probs[k], o.prob,
                                                refine.orig_tk_poss[k],
                                                o.tk_pos)
                IN  (~refine.is_finish[k] /\ ~r.fin) =>
                        /\ MidpointAccepted(k, r) <=> ~fails
                        /\ MidpointRejected(k, r) <=> fails

\* C23 as the specification states it: whatever the probe measures in which
\* a word finishes, a timestamp written for the word is the latest midpoint
\* whose probe was accepted: the midpoint of this probe if it is accepted,
\* and else the bound the last accepted midpoint became.
C23_AsClaimed ==
    refine.pc = "loop" =>
        \A k \in 1..Len(refine.is_finish) :
            \A o \in refine.probes :
                LET r == IterWord(k, o.prob, o.tk_pos)
                    fails == FailedRequirements(refine.orig_probs[k],
                                                refine.prev_probs[k], o.prob,
                                                refine.orig_tk_poss[k],
                                                o.tk_pos)
                    mid == IF IsEndTs THEN refine.mid_ends[k]
                           ELSE refine.mid_starts[k]
                    bound == IF IsEndTs THEN refine.max_ends[k]
                             ELSE refine.min_starts[k]
                IN  (/\ ~refine.is_finish[k]
                     /\ r.fin
                     /\ r.word # refine.words[BatchPlace(k)]) =>
                        IF ~fails THEN r.change[3] = mid
                        ELSE refine.changes[k][2] = 1 /\ r.change[3] = bound

\* C24 as the specification states it: no frame of the features is zeroed
\* when the baseline of a batch is measured.
C24_AsClaimed ==
    refine.pc = "loop" =>
        \A k \in 1..Len(refine.baseline_mel) :
            \/ refine.baseline_mel[k] = <<>>
            \/ refine.baseline_mel[k][1].from >= refine.baseline_mel[k][1].to

\* the frame of the time t (ms) in the batch in hand
FrameOf(t) == ts_to_frames(Scale * t - refine.time_offset)

\* the first midpoint of word k of the batch in hand: the frame of its
\* lower clamp in a pass over the starts, of its start in a pass over the
\* ends, plus the first half width
FirstMid(k) ==
    IF IsEndTs
    THEN FrameOf(refine.pass_words[BatchPlace(k)].start) + refine.half0[k]
    ELSE ts_to_frames(refine.start_times[BatchPlace(k)] - refine.time_offset)
            + refine.half0[k]

\* C24 amended: when the baseline of a batch is measured, the features are
\* zeroed outside the timestamps the words came with, and nowhere else: for
\* every word that is not finished beforehand, in the row of the parity of
\* its place, in a pass over the starts the frames from the first midpoint
\* of the word before it (from frame 0 for the first word) up to its start,
\* and in a pass over the ends the frames from its end up to the first
\* midpoint of the word after it (to the last frame for the last word); for
\* a word finished beforehand nothing is zeroed.
C24_BaselineOnOuterMute ==
    refine.pc = "loop" =>
        LET n == Len(refine.baseline_mel)
        IN  /\ n = Len(refine.is_finish)
            /\ \A k \in 1..n :
                 LET w == refine.pass_words[BatchPlace(k)]
                     pre == PreFinished(w, refine.edge_mask[BatchPlace(k)],
                                        refine.prob_threshold,
                                        refine.word_level, IsEndTs)
                     m == refine.baseline_mel[k][1]
                 IN  IF pre THEN refine.baseline_mel[k] = <<>>
                     ELSE /\ Len(refine.baseline_mel[k]) = 1
                          /\ m.row = (k - 1) % 2
                          /\ IF IsEndTs
                             THEN /\ m.from = FrameOf(w.end)
                                  /\ m.to = IF k = n THEN N_FRAMES
                                            ELSE FirstMid(k + 1)
                             ELSE /\ m.to = FrameOf(w.start)
                                  /\ m.from = IF k = 1 THEN 0
                                              ELSE FirstMid(k - 1)

\* in a pass over the ends the baseline of an unfinished word was measured
\* with every frame after the end of the word zeroed, and the loop has run
C24_Witness ==
    /\ refine.pc = "loop"
    /\ IsEndTs
    /\ refine.iters > 0
    /\ \E k \in 1..Len(refine.baseline_mel) :
        /\ refine.baseline_mel[k] # <<>>
        /\ refine.baseline_mel[k][1].from < refine.baseline_mel[k][1].to
        /\ refine.baseline_mel[k][1].to = N_FRAMES

\* C25: in every batch, for every word and both endpoints, the midpoint
\* lies between the bounds of the search interval, from the set-up of the
\* batch on and after every update; an iteration never lowers a lower bound
\* and never raises an upper bound.
C25_IntervalInvariant ==
    /\ [](refine.pc = "loop" =>
            \A k \in 1..Len(refine.is_finish) :
                /\ refine.min_starts[k] <= refine.mid_starts[k]
                /\ refine.mid_starts[k] <= refine.max_starts[k]
                /\ refine.min_ends[k] <= refine.mid_ends[k]
                /\ refine.mid_ends[k] <= refine.max_ends[k])
    /\ [][(refine.pc = "loop" /\ refine'.pc = "loop") =>
            \A k \in 1..Len(refine.is_finish) :
                /\ refine'.min_starts[k] >= refine.min_starts[k]
                /\ refine'.max_starts[k] <= refine.max_starts[k]
                /\ refine'.min_ends[k] >= refine.min_ends[k]
                /\ refine'.max_ends[k] <= refine.max_ends[k]]_vars

\* a word has had a probe accepted and a probe rejected and goes on with a
\* midpoint strictly between its bounds
C25_Witness ==
    /\ refine.pc = "loop"
    /\ \E k \in 1..Len(refine.is_finish) :
        /\ ~refine.is_finish[k]
        /\ refine.changes[k][1] = 1
        /\ refine.changes[k][2] = 1
        /\ IF IsEndTs
           THEN /\ refine.min_ends[k] < refine.mid_ends[k]
                /\ refine.mid_ends[k] < refine.max_ends[k]
           ELSE /\ refine.min_starts[k] < refine.mid_starts[k]
                /\ refine.mid_starts[k] < refine.max_starts[k]

\* the place in the batch in hand of word i of the result, 0 if it is not
\* in the batch
PlaceInBatch(i) ==
    IF /\ refine.pc = "loop"
       /\ i >= refine.batches[refine.batch_i].first
       /\ i < refine.batches[refine.batch_i].first
              + refine.batches[refine.batch_i].count
    THEN i - refine.batches[refine.batch_i].first + 1
    ELSE 0

\* C3: after refine returns, every word has start <= end, a start not before
\* 0 and not before the end of the word before it, and an end not after the
\* start of the word after it and not after the total duration of the audio.
C3_WordsStayOrdered ==
    refine.pc = "done" =>
        \A i \in 1..Len(refine.words) :
            LET w == refine.words[i]
            IN  /\ w.start <= w.end
                /\ w.start >= 0
                /\ i > 1 => w.start >= refine.words[i - 1].end
                /\ i < Len(refine.words) => w.end <= refine.words[i + 1].start
                /\ w.end <= refine.total_duration

\* refine has returned with a later word whose start was moved and an
\* earlier word whose end was moved
C3_Witness ==
    /\ refine.pc = "done"
    /\ \E i \in 2..Len(refine.words) :
        /\ refine.words[i].start # refine.input[i].start
        /\ refine.words[i - 1].end # refine.input[i - 1].end

\* C4: a word of duration 0 when a pass starts is finished when the while
\* loop of its batch is entered, and a word of duration 0 in the input has
\* the start and the end of the input in every state of refine.
C4_InstantWordsUntouched ==
    /\ \A i \in 1..Len(refine.pass_words) :
        (Duration(refine.pass_words[i]) = 0 /\ PlaceInBatch(i) # 0) =>
            /\ refine.is_finish[PlaceInBatch(i)]
            /\ refine.changes[PlaceInBatch(i)] = <<0, 0, -1>>
            /\ Duration(refine.input[i]) = 0
    /\ \A i \in 1..Len(refine.input) :
        Duration(refine.input[i]) = 0 =>
            /\ refine.words[i].start = refine.input[i].start
            /\ refine.words[i].end = refine.input[i].end

\* the loop has probed a batch that holds a word of duration 0 and a word
\* that has been given a new timestamp
C4_Witness ==
    /\ refine.pc = "loop"
    /\ refine.iters >= 1
    /\ \E i, j \in 1..Len(refine.words) :
        /\ PlaceInBatch(i) # 0
        /\ PlaceInBatch(j) # 0
        /\ Duration(refine.pass_words[i]) = 0
        /\ refine.words[j] # refine.pass_words[j]

\* C5 as the specification states it: no start is later and no end is
\* earlier than in the input.
C5_AsClaimed ==
    \A i \in 1..Len(refine.words) :
        /\ refine.words[i].start <= refine.input[i].start
        /\ refine.words[i].end >= refine.input[i].end

\* C5, amended: a step changes a timestamp of a word only when the word
\* finishes in that step, a start in a pass over the starts and an end in a
\* pass over the ends; when every probe of the word was rejected the new
\* start is earlier and the new end is later than the one it replaces; when
\* some probe was accepted the new value is the recorded midpoint wherever it
\* lies.
C5_OverwriteRule ==
    [][\A i \in 1..Len(refine.words) :
        refine.words'[i] # refine.words[i] =>
            LET k == PlaceInBatch(i)
                w == refine.words[i]
                v == refine.words'[i]
                new_ts == NewTs(refine.time_offset, refine.changes'[k][3])
            IN  /\ k # 0
                /\ ~refine.is_finish[k]
                /\ refine'.is_finish[k]
                /\ refine.changes'[k][3] # -1
                /\ IF IsEndTs
                   THEN v = [w EXCEPT !.end = new_ts]
                   ELSE v = [w EXCEPT !.start = new_ts]
                /\ refine.changes'[k][2] = 0 =>
                    IF IsEndTs THEN v.end > w.end ELSE v.start < w.start
      ]_vars

\* in a pass over the starts a word all of whose probes were rejected has
\* finished and has been given a start earlier than the one it had
C5_Witness ==
    /\ refine.pc = "loop"
    /\ ~IsEndTs
    /\ \E i \in 1..Len(refine.words) :
        /\ PlaceInBatch(i) # 0
        /\ refine.is_finish[PlaceInBatch(i)]
        /\ refine.changes[PlaceInBatch(i)][1] = 1
        /\ refine.changes[PlaceInBatch(i)][2] = 0
        /\ refine.words[i].start < refine.pass_words[i].start

\* the half width of the search interval of word k of the batch in hand
HalfWidth(r, k) ==
    IF r.steps[r.step_i] = "e"
    THEN Round(r.max_ends[k] - r.min_ends[k], 2)
    ELSE Round(r.max_starts[k] - r.min_starts[k], 2)

RECURSIVE CeilLog2Ratio(_, _)
\* the least j >= 0 with d * 2^j >= h: ceil(log2(h / d)), and 0 when h < d
CeilLog2Ratio(h, d) ==
    IF d >= h THEN 0 ELSE 1 + CeilLog2Ratio(h, 2 * d)

\* C6: an iteration of the while loop leaves the half width of no word of
\* the batch larger than it was, and a word that is not yet finished has
\* been through at most ceil(log2(initial half width / frame_precision)) + 1
\* iterations, so that the loop of a batch ends within the largest such
\* logarithm of its words plus 2 iterations.
C6_HalvingTerminates ==
    /\ [](refine.pc = "loop" =>
            /\ \A k \in 1..Len(refine.is_finish) :
                  ~refine.is_finish[k] =>
                     refine.iters <= CeilLog2Ratio(refine.half0[k],
                                                   refine.frame_precision) + 1
            /\ \E k \in 1..Len(refine.is_finish) :
                  refine.iters <= CeilLog2Ratio(refine.half0[k],
                                                refine.frame_precision) + 2)
    /\ [][(refine.pc = "loop" /\ refine'.pc = "loop") =>
            \A k \in 1..Len(refine.is_finish) :
                HalfWidth(refine', k) <= HalfWidth(refine, k)]_vars

\* the loop has run twice over a word whose interval it has halved
C6_Witness ==
    /\ refine.pc = "loop"
    /\ refine.iters >= 2
    /\ \E k \in 1..Len(refine.is_finish) :
        /\ refine.changes[k][3] # -1
        /\ HalfWidth(refine, k) < refine.half0[k]
        /\ HalfWidth(refine, k) >= refine.frame_precision

\* C32 as the specification states it: what a bisection step leaves in a
\* word that finishes in it is what the same step, on the same state and the
\* same probe outcome, leaves in it under every other value of verbose.
C32_AsClaimed ==
    refine.pc = "loop" =>
        \A a \in ProbeAnswers(refine.is_finish) :
        \A k \in 1..Len(refine.is_finish) :
        \A verbose \in VerboseVals :
            LET r == IterWord(k, a[k].prob, a[k].tk_pos)
            IN  (~refine.is_finish[k] /\ r.fin) =>
                    r.word = UpdateTs(refine.words[BatchPlace(k)], IsEndTs,
                                      r.change, refine.time_offset, verbose)

\* C33 as the specification states it: the row a bisection step writes for
\* a word that goes on to a new midpoint is the row that was zeroed for the
\* word before the baseline, whatever the numbers of tokens of the words.
C33_AsClaimed ==
    refine.pc = "loop" =>
        \A a \in ProbeAnswers(refine.is_finish) :
        \A k \in 1..Len(refine.is_finish) :
            LET r == IterWord(k, a[k].prob, a[k].tk_pos)
                n == Len(refine.is_finish)
                muted == InitialMute(k, n, IsEndTs, refine.min_ends,
                                     refine.mid_starts)
            IN  (~refine.is_finish[k] /\ ~r.fin) => r.row = muted.row

(***************************************************************************)
(* Claims about locate                                                     *)
(***************************************************************************)
\* C7: with count > 0 neither found nor the number of matches ever exceeds
\* count; found grows by one at a time, in the decode loop only in the step
\* that confirms the match, and a confirmed match stays confirmed to the end
\* of its window, so that found grows at most once per window; a window
\* begins only while count is 0 or found is below count; and with count = 0
\* locate returns only when the cursor has reached the end of the audio.
C7_CountStopsSearch ==
    /\ [](locate.pc # "idle" /\ locate.count > 0 =>
            /\ locate.found <= locate.count
            /\ Len(locate.matches) <= locate.count)
    /\ [](locate.pc = "done" /\ locate.count = 0 =>
            locate.seek_sample >= locate.total_samples)
    /\ [][/\ locate'.found \in {locate.found, locate.found + 1}
          /\ (locate.pc = "decode" /\ locate'.found # locate.found) =>
                ~locate.d.found_target /\ locate'.d.found_target
          /\ (locate.pc = "decode" /\ locate.d.found_target) =>
                locate'.d.found_target /\ locate'.found = locate.found
          /\ locate'.windows # locate.windows =>
                (locate.count = 0 \/ locate.found < locate.count)
         ]_vars

\* locate has returned count = 2 confirmed matches and has left the rest of
\* the audio unsearched
C7_Witness ==
    /\ locate.pc = "done"
    /\ locate.mode # 2
    /\ locate.count = 2
    /\ locate.found = locate.count
    /\ Len(locate.matches) = locate.count
    /\ locate.seek_sample < locate.total_samples

\* C16 as the specification states it: no window of the confirm stage
\* appends more than max_token_per_seg tokens to predictions.
C16_AsClaimed ==
    locate.pc \in {"decode", "decoded"} =>
        Len(locate.d.predictions) <= locate.max_token_per_seg

\* C17 as the specification states it: while no match is confirmed, the
\* decode loop of a window ends at the step in which the counter of
\* consecutive terminators reaches eots.
C17_AsClaimed ==
    [][(/\ locate.pc = "decode"
        /\ ~locate'.d.found_target
        /\ locate'.d.curr_eots = locate.d.curr_eots + 1
        /\ locate'.d.curr_eots = locate.eots) =>
            locate'.pc # "decode"]_vars

\* a step of the decode loop has rewound: the replacement buffer was not
\* empty and the step has emptied it or has failed in the replay
Rewound ==
    /\ locate.pc = "decode"
    /\ locate.d.replace_found_tokens # <<>>
    /\ \/ locate'.pc = "RuntimeError"
       \/ locate'.pc # "RuntimeError" /\ locate'.d.replace_found_tokens = <<>>

\* the tokens inferred so far with the last positions replaced by the
\* buffered choices
Replayed(d) ==
    SubSeq(d.infer_tokens, 1,
           Len(d.infer_tokens) - Len(d.replace_found_tokens))
        \o d.replace_found_tokens

\* C26 as the specification states it: a rewind leaves the decode cache
\* empty, and the context of the next call of the decoder begins with the
\* replayed sequence.
C26_AsClaimed ==
    [][Rewound =>
        /\ locate'.pc \in {"decode", "decoded"}
        /\ locate'.d.kv_cache = <<>>
        /\ locate'.pc = "decode" =>
             /\ Len(locate'.d.temp_tokens) = 1
             /\ Len(locate'.d.temp_tokens[1]) >= Len(Replayed(locate.d))
             /\ SubSeq(locate'.d.temp_tokens[1], 1, Len(Replayed(locate.d)))
                  = Replayed(locate.d)]_vars

\* C27 as the specification states it: whatever the decoder answers, when
\* the expected token is accepted as a token at a step whose best token
\* that is not the terminator differs from it, that best token is what the
\* step appends to the replacement buffer.
C27_AsClaimed ==
    locate.pc = "decode" =>
        \A best_token \in Vocab \cup {Eot} :
        \A best_non_eot_token \in Vocab :
        \A high \in BOOLEAN :
            LET d == locate.d
                target == locate.text_tokens[d.target_token_idx + 1]
                r == DecodeStep(d, best_token, best_non_eot_token, high)
            IN  (/\ best_token # Eot => best_non_eot_token = best_token
                 /\ d.found_target => ~high
                 /\ ~r.error
                 /\ r.d.target_token_idx = d.target_token_idx + 1
                 /\ best_non_eot_token # target) =>
                    r.d.replace_found_tokens
                        = Append(d.replace_found_tokens, best_non_eot_token)

\* the decode locals after a step of the decode loop: those of the step,
\* and the ones before it when the step has raised
AfterStep(d, r) == IF r.error THEN d ELSE r.d

\* C28 as the specification states it: in exact-token mode, before a match
\* is confirmed, the cursor indexes inside the phrase, and whatever the
\* decoder answers the step advances the cursor by one if the expected
\* token reaches probability_threshold or is the best token that is not
\* the terminator, and resets it to 0 otherwise; the match is confirmed
\* exactly when the cursor reaches the length of the phrase.
C28_AsClaimed ==
    (locate.pc = "decode" /\ locate.exact_token /\ ~locate.d.found_target) =>
        /\ locate.d.target_token_idx < Len(locate.text_tokens)
        /\ \A best_token \in Vocab \cup {Eot} :
           \A best_non_eot_token \in Vocab :
           \A high \in BOOLEAN :
              LET d == locate.d
                  target == locate.text_tokens[d.target_token_idx + 1]
                  r == DecodeStep(d, best_token, best_non_eot_token, high)
                  after == AfterStep(d, r)
              IN  (best_token # Eot => best_non_eot_token = best_token) =>
                    /\ IF high \/ best_non_eot_token = target
                       THEN after.target_token_idx = d.target_token_idx + 1
                       ELSE after.target_token_idx = 0
                    /\ after.found_target
                         <=> after.target_token_idx = Len(locate.text_tokens)

\* C29: a step of the decode loop in a window in which the match is
\* confirmed does not raise and does not count a match again; it ends the
\* decoding if the arg-max is the terminator (which then is the prediction
\* of the step), whatever eots and the counter of terminators are, and
\* otherwise ends it only when the predictions exceed max_token_per_seg; no
\* terminator is counted and passed over any more.
C29_HaltsAfterConfirmed ==
    [][(locate.pc = "decode" /\ locate.d.found_target) =>
        /\ locate'.pc \in {"decode", "decoded"}
        /\ locate'.found = locate.found
        /\ locate'.d.found_target
        /\ Len(locate'.d.predictions) = Len(locate.d.predictions) + 1
        /\ locate'.d.curr_eots \in {0, locate.d.curr_eots}
        /\ IF Last(locate'.d.predictions) = Eot
           THEN /\ locate'.pc = "decoded"
                /\ locate'.d.curr_eots = locate.d.curr_eots
           ELSE locate'.pc = "decode" <=>
                  Len(locate'.d.predictions) <= locate.max_token_per_seg
      ]_vars

\* the match was confirmed in the first step of a window and the second
\* step, a terminator, has ended the decoding below the token maximum and
\* with the counter of terminators below eots
C29_Witness ==
    /\ locate.pc = "decoded"
    /\ locate.d.found_target
    /\ locate.eots = 1
    /\ locate.d.curr_eots = 0
    /\ Len(locate.d.predictions) = 2
    /\ locate.d.predictions[1] # Eot
    /\ locate.d.predictions[2] = Eot
    /\ Len(locate.d.predictions) <= locate.max_token_per_seg

\* C30 as the specification states it: a window in mode 2 returns the
\* estimate and moves the cursor on by the estimate, or by a full chunk when
\* the estimate is that of the window before or the count is reached.
C30_AsClaimed ==
    [][(locate.pc = "loop" /\ locate.mode = 2
          /\ locate'.windows = locate.windows + 1) =>
        LET est == Last(locate'.matches).target_end - Seek
        IN  /\ Len(locate'.matches) = Len(locate.matches) + 1
            /\ locate'.prev_target_end = <<est>>
            /\ IF \/ locate.prev_target_end = <<est>>
                  \/ locate.count # 0 /\ locate'.found >= locate.count
               THEN locate'.seek_sample = locate.seek_sample + CHUNK_SAMPLES
               ELSE locate'.seek_sample
                      = locate.seek_sample + MsToSamples(est)]_vars

\* the calls of locate with duration windows from nothing to a whole chunk
\* before the estimate, all of which pass the assertion of lines 834-836
LocateArgWindows == {<<3000, 3000>>, <<0, 0>>, <<CHUNK_LENGTH * 1000, 0>>}

LocateWindowsInit ==
    \E mode \in LocateModes :
    \E count \in {0, 1} :
    \E total \in LocateTotals :
    \E duration_window \in LocateArgWindows :
        /\ EntryAssertion(duration_window)
        /\ locate = LocateCall(mode, count, total, FALSE, <<"a">>, 0, 2,
                               duration_window)

InitLocateWindows ==
    LocateWindowsInit /\ align = AlignIdle /\ refine = RefineIdle

SpecLocateWindows == InitLocateWindows /\ [][NextLocate]_vars

\* C31 as the specification states it: in modes 0 and 1, with a
\* duration_window that has passed the assertion, the end of every window
\* leaves the cursor further on than it was.
C31_AsClaimed ==
    [][(locate.pc = "decoded" /\ locate'.pc = "loop"
          /\ locate.mode \in {0, 1}
          /\ EntryAssertion(locate.duration_window)) =>
            locate'.seek_sample > locate.seek_sample]_vars

=============================================================================
